---- MODULE Spec2Model ----
(***************************************************************************)
(* Model of the persistence layer of magnetico (pkg/persistence): the      *)
(* Database interface and its two implementations, sqlite3Database and     *)
(* postgresDatabase.  The tables torrents and files are sets of rows; a    *)
(* transaction keeps its rows private until Commit.  Callers are the       *)
(* processes of Procs, which may run AddNewTorrent concurrently.           *)
(***************************************************************************)
EXTENDS Integers, Sequences, FiniteSets, TLC

\* ---------------------------------------------------------------- bounds
MaxAdds == 2
MaxClock == 2

\* Callers of the Database, the connections database/sql may pool for them,
\* and the infohashes they pass (20-byte values, compared by value).
Procs == {1, 2}
Conns == {1, 2}
InfoHashes == {1, 2}

\* ------------------------------------------------------- strings as bytes
\* Go strings are byte sequences; a few short ones are enough to tell a
\* stored name from another, an empty name, and a name that is not UTF-8.
NameA == <<97>>
NameInvalid == <<97, 255>>
PathP == <<112>>
PathQ == <<113>>
Names == {NameA, NameInvalid}

File(size, path) == [Size |-> size, Path |-> path]

FileLists ==
  { <<>>,
    <<File(0, PathP)>>,
    <<File(1, PathP)>>,
    <<File(1, PathP), File(2, PathQ)>> }

\* ------------------------------------------------------------ UTF-8 (Go)
RuneError == 65533

IsCont(s, i) == i <= Len(s) /\ s[i] >= 128 /\ s[i] <= 191

InRange(s, i, lo, hi) == i <= Len(s) /\ s[i] >= lo /\ s[i] <= hi

\* Width of the well-formed UTF-8 sequence that starts at s[i], 0 if there
\* is none (unicode/utf8: the byte then decodes as RuneError, width 1).
RuneLen(s, i) ==
  LET b == s[i] IN
  IF b < 128 THEN 1
  ELSE IF b >= 194 /\ b <= 223 /\ IsCont(s, i + 1) THEN 2
  ELSE IF b = 224 /\ InRange(s, i + 1, 160, 191) /\ IsCont(s, i + 2) THEN 3
  ELSE IF ((b >= 225 /\ b <= 236) \/ b = 238 \/ b = 239)
          /\ IsCont(s, i + 1) /\ IsCont(s, i + 2) THEN 3
  ELSE IF b = 237 /\ InRange(s, i + 1, 128, 159) /\ IsCont(s, i + 2) THEN 3
  ELSE IF b = 240 /\ InRange(s, i + 1, 144, 191)
          /\ IsCont(s, i + 2) /\ IsCont(s, i + 3) THEN 4
  ELSE IF b >= 241 /\ b <= 243
          /\ IsCont(s, i + 1) /\ IsCont(s, i + 2) /\ IsCont(s, i + 3) THEN 4
  ELSE IF b = 244 /\ InRange(s, i + 1, 128, 143)
          /\ IsCont(s, i + 2) /\ IsCont(s, i + 3) THEN 4
  ELSE 0

\* The rune a `range` loop over a string yields at byte offset i.
RuneAt(s, i) ==
  LET n == RuneLen(s, i) IN
  CASE n = 0 -> RuneError
    [] n = 1 -> s[i]
    [] n = 2 -> (s[i] - 192) * 64 + (s[i + 1] - 128)
    [] n = 3 -> (s[i] - 224) * 4096 + (s[i + 1] - 128) * 64 + (s[i + 2] - 128)
    [] n = 4 -> (s[i] - 240) * 262144 + (s[i + 1] - 128) * 4096
                + (s[i + 2] - 128) * 64 + (s[i + 3] - 128)

RECURSIVE ValidFrom(_, _)
ValidFrom(s, i) ==
  IF i > Len(s) THEN TRUE
  ELSE IF RuneLen(s, i) = 0 THEN FALSE
  ELSE ValidFrom(s, i + RuneLen(s, i))

ValidString(s) == ValidFrom(s, 1)

\* One pass of the inner loop of fixUTF8Encoding: every rune that is not
\* RuneError is appended as byte(c), i.e. truncated to its low 8 bits.
RECURSIVE fixPass(_, _)
fixPass(s, i) ==
  IF i > Len(s) THEN <<>>
  ELSE LET n == RuneLen(s, i)
           c == RuneAt(s, i)
           w == IF n = 0 THEN 1 ELSE n
       IN  (IF c # RuneError THEN <<c % 256>> ELSE <<>>) \o fixPass(s, i + w)

\* "Invalid UTF-8"
InvalidUTF8 == <<73, 110, 118, 97, 108, 105, 100, 32, 85, 84, 70, 45, 56>>

RECURSIVE fixUTF8Encoding(_)
fixUTF8Encoding(in) ==
  IF ~ValidString(in) /\ Len(in) > 0 THEN fixUTF8Encoding(fixPass(in, 1))
  ELSE IF Len(in) > 0 THEN in
  ELSE InvalidUTF8

VARIABLES engine, torrents, files, conns, tseq, fseq, tx, now, last, returnedNil, nAdds,
          walk, web, userVersion, statistics, gen

vars == <<engine, torrents, files, conns, tseq, fseq, tx, now, last, returnedNil, nAdds,
          walk, web, userVersion, statistics, gen>>

\* --------------------------------------------------------------- helpers
RECURSIVE SumSizes(_)
SumSizes(fs) == IF fs = <<>> THEN 0 ELSE fs[1].Size + SumSizes(Tail(fs))

MaxId(rows) ==
  IF rows = {} THEN 0 ELSE CHOOSE m \in {r.id : r \in rows} : \A r \in rows : r.id <= m

RECURSIVE SortById(_)
SortById(rows) ==
  IF rows = {} THEN <<>>
  ELSE LET m == CHOOSE r \in rows : \A q \in rows : r.id <= q.id
       IN  <<m>> \o SortById(rows \ {m})

TorrentRow(id, ih, name, size, on) ==
  [id |-> id, info_hash |-> ih, name |-> name, total_size |-> size, discovered_on |-> on]

FileRow(id, tid, size, path) ==
  [id |-> id, torrent_id |-> tid, size |-> size, path |-> path]

\* SELECT ... FROM torrents WHERE info_hash = ih
RowsOf(ih) == {t \in torrents : t.info_hash = ih}

\* (SELECT COUNT(*) FROM files WHERE torrent_id = torrents.id)
NFilesOf(id) == Cardinality({f \in files : f.torrent_id = id})

\* ----------------------------------------------------------- transactions
NoTx ==
  [active |-> FALSE, conn |-> 0, ih |-> 0, name |-> <<>>, files |-> <<>>,
   lastInsertId |-> 0, pending |-> {}]

NoCall ==
  [op |-> "none", ih |-> 0, name |-> <<>>, files |-> <<>>, why |-> "",
   err |-> FALSE, exists |-> FALSE, tm |-> <<>>, fl |-> <<>>, n |-> 0,
   existed |-> FALSE, panic |-> FALSE, args |-> <<>>, rows |-> <<>>, stats |-> <<>>,
   both |-> <<>>]

\* The client that pages through QueryTorrents, before its first request.
NoWalk == [active |-> FALSE, args |-> <<>>, pages |-> <<>>, done |-> FALSE, back |-> <<>>]

\* The magneticow process before main runs.
NoWeb ==
  [pc |-> "start", exit |-> 0, cause |-> "none", scheme |-> "", bind |-> "",
   handler |-> "none", orderBy |-> "", status |-> 0, panic |-> FALSE, td |-> <<>>]

Call(op, ih) == [NoCall EXCEPT !.op = op, !.ih = ih]

\* No GenerateStatisticData call is running.  pc: the statement the call
\* executes next; conn: the connection of its transaction.
NoGen == [pc |-> "idle", conn |-> 0, from |-> 0, nTorrents |-> 0, nFiles |-> 0]

\* A connection of the pool is busy while a transaction is bound to it.
ConnBusy(c) ==
  \/ \E q \in Procs : tx[q].active /\ tx[q].conn = c
  \/ gen.pc # "idle" /\ gen.conn = c

\* database/sql hands out a free pooled connection, and opens a new one
\* only when none is free.
Acquirable ==
  LET free == {c \in Conns : conns[c].open /\ ~ConnBusy(c)}
  IN  IF free # {} THEN free ELSE {c \in Conns : ~conns[c].open}

\* A connection opened after setupDatabase starts with SQLite's defaults:
\* the PRAGMAs of setupDatabase were executed on another connection.
Acquired(c) ==
  IF engine = "sqlite3" /\ ~conns[c].open
  THEN [conns EXCEPT ![c] = [open |-> TRUE, fk |-> FALSE, lastRowid |-> 0]]
  ELSE conns

\* ------------------------------------------------------------ the schema
\* userVersion is the schema version the database stores: PRAGMA
\* user_version in sqlite3, the SCHEMA_VERSION setting in postgres.

\* The cases the switch of sqlite3's setupDatabase runs for a stored
\* version: cases 0, 1 and 2 fall through into the next one, cases 3 and 4
\* do not, and a version above 4 matches no case.
RECURSIVE sqliteCases(_)
sqliteCases(v) ==
  IF v \in {0, 1, 2} THEN <<v>> \o sqliteCases(v + 1)
  ELSE IF v \in {3, 4} THEN <<v>>
  ELSE <<>>

\* Every case ends with PRAGMA user_version = its number + 1.
sqliteMigrated(v) ==
  IF sqliteCases(v) = <<>> THEN v
  ELSE sqliteCases(v)[Len(sqliteCases(v))] + 1

\* postgres: case "0" creates the tables and stores version 1; the
\* statement of case "1" ends its column list with a comma, the server
\* rejects it and the transaction is rolled back.
postgresMigrated(v) ==
  CASE v = 0 -> [err |-> FALSE, version |-> 1]
    [] v = 1 -> [err |-> TRUE, version |-> 1]
    [] OTHER -> [err |-> FALSE, version |-> v]

\* The outcome of setupDatabase on a database at version v when no
\* statement fails for reasons outside the program.
setupDatabaseResult(e, v) ==
  IF e = "sqlite3" THEN [err |-> FALSE, version |-> sqliteMigrated(v)]
  ELSE postgresMigrated(v)

Init ==
  /\ engine \in {"sqlite3", "postgres"}
  /\ torrents = {}
  /\ files = {}
  /\ conns = [c \in Conns |->
               [open |-> (c = 1), fk |-> (c = 1 /\ engine = "sqlite3"), lastRowid |-> 0]]
  /\ tseq = 0
  /\ fseq = 0
  /\ tx = [p \in Procs |-> NoTx]
  /\ now = 1
  /\ last = NoCall
  /\ returnedNil = {}
  /\ userVersion = setupDatabaseResult(engine, 0).version
  /\ statistics = {}
  /\ gen = NoGen
  /\ nAdds = 0
  /\ walk = NoWalk
  /\ web = NoWeb

\* time.Now() moves on between calls.
Tick ==
  /\ now < MaxClock
  /\ now' = now + 1
  /\ UNCHANGED <<engine, torrents, files, conns, tseq, fseq, tx, last, returnedNil, nAdds>>
  /\ UNCHANGED <<walk, web, userVersion, statistics, gen>>

\* ----------------------------------------------------------------- reads
\* The reads run outside a transaction: they see the committed rows only.
Idle(p) == ~tx[p].active

ReadFrame(c) ==
  /\ conns' = Acquired(c)
  /\ UNCHANGED <<engine, torrents, files, tseq, fseq, tx, now, returnedNil, nAdds>>
  /\ UNCHANGED <<walk, web, userVersion, statistics, gen>>

\* Mutation: the WHERE clause is lost, any row counts.
DoesTorrentExistResult_AnyRow(ih) == torrents # {}

DoesTorrentExistResult(ih) == RowsOf(ih) # {}

DoesTorrentExist(p, ih) ==
  /\ Idle(p)
  /\ \E c \in Acquirable :
       /\ last' = [Call("DoesTorrentExist", ih) EXCEPT
                     !.exists = DoesTorrentExistResult(ih)]
       /\ ReadFrame(c)

\* sqlite3 scans all six columns.  postgres selects five columns and scans
\* discovered_on (a TIMESTAMP) into an int64: Scan stops there with an
\* error nobody looks at, so DiscoveredOn and NFiles keep their zero value.
MetadataOn(e, t) ==
  IF e = "sqlite3"
  THEN [ID |-> t.id, InfoHash |-> t.info_hash, Name |-> t.name, Size |-> t.total_size,
        DiscoveredOn |-> t.discovered_on, NFiles |-> NFilesOf(t.id)]
  ELSE [ID |-> 0, InfoHash |-> t.info_hash, Name |-> t.name, Size |-> t.total_size,
        DiscoveredOn |-> 0, NFiles |-> 0]

Metadata(t) == MetadataOn(engine, t)

\* Mutation: the WHERE clause is lost, the first row of the table is returned.
GetTorrentResult_AnyRow(ih) ==
  IF torrents = {} THEN <<>>
  ELSE <<Metadata(CHOOSE t \in torrents : \A u \in torrents : t.id <= u.id)>>

\* <<>> is the nil *TorrentMetadata.
GetTorrentResultOn(e, ih) ==
  IF RowsOf(ih) = {} THEN <<>>
  ELSE <<MetadataOn(e, CHOOSE t \in RowsOf(ih) : \A u \in RowsOf(ih) : t.id <= u.id)>>

GetTorrentResult(ih) == GetTorrentResultOn(engine, ih)

GetTorrent(p, ih) ==
  /\ Idle(p)
  /\ \E c \in Acquirable :
       /\ last' = [Call("GetTorrent", ih) EXCEPT !.tm = GetTorrentResult(ih)]
       /\ ReadFrame(c)

\* sqlite3 joins files with torrents on the torrent's id.
FilesOfInfoHash(ih) ==
  LET rows == {f \in files : \E t \in RowsOf(ih) : f.torrent_id = t.id}
      sorted == SortById(rows)
  IN  [i \in 1..Len(sorted) |-> File(sorted[i].size, sorted[i].path)]

\* postgres compares the INTEGER column torrent_id with the infohash bytes:
\* the server rejects the statement and the query returns an error.
GetFilesResultOn(e, ih) ==
  IF e = "sqlite3"
  THEN [err |-> FALSE, fl |-> FilesOfInfoHash(ih)]
  ELSE [err |-> TRUE, fl |-> <<>>]

GetFilesResult(ih) == GetFilesResultOn(engine, ih)

GetFiles(p, ih) ==
  /\ Idle(p)
  /\ \E c \in Acquirable :
       /\ last' = [Call("GetFiles", ih) EXCEPT
                     !.err = GetFilesResult(ih).err, !.fl = GetFilesResult(ih).fl]
       /\ ReadFrame(c)

\* sqlite3 counts the rows.  postgres selects MAX(ctid), a (block, offset)
\* tuple identifier (NULL on an empty table), and scans it into a uint:
\* Scan fails and the call returns 0 and the error.
GetNumberOfTorrentsResultOn(e) ==
  IF e = "sqlite3"
  THEN [err |-> FALSE, n |-> Cardinality(torrents)]
  ELSE [err |-> TRUE, n |-> 0]

GetNumberOfTorrentsResult == GetNumberOfTorrentsResultOn(engine)

GetNumberOfTorrents(p) ==
  /\ Idle(p)
  /\ \E c \in Acquirable :
       /\ last' = [Call("GetNumberOfTorrents", 0) EXCEPT
                     !.err = GetNumberOfTorrentsResult.err,
                     !.n = GetNumberOfTorrentsResult.n]
       /\ ReadFrame(c)

\* ---------------------------------------------------------- AddNewTorrent
\* AddNewTorrent runs in a transaction, so a concurrent caller can run
\* between its statements.  It is modelled in two steps: from Begin to the
\* INSERT into torrents (AddNewTorrentInsert), and from the INSERTs into
\* files to Commit (AddNewTorrentCommit).

AddResult(ih, name, fs, err, existed) ==
  [Call("AddNewTorrent", ih) EXCEPT
     !.name = name, !.files = fs, !.err = err, !.existed = existed]

\* An SQLite writer holds the database's write lock until it commits.
WriteLocked(p) == \E q \in Procs \ {p} : tx[q].active

\* Mutation: info_hash is not UNIQUE, every INSERT adds a row.
Conflicts_NoUnique(ih) == FALSE

\* INSERT OR IGNORE INTO torrents: the UNIQUE(info_hash) constraint turns
\* the insert of a known infohash into a no-op.
Conflicts(ih) == RowsOf(ih) # {}

\* Mutation: the row is stamped with a time that is still to come.
SqliteInserted_Future(ih, name, totalSize) ==
  IF Conflicts(ih) THEN {}
  ELSE {TorrentRow(MaxId(torrents) + 1, ih, name, totalSize, now + 1)}

\* sqlite3: the rows the INSERT OR IGNORE adds to the transaction.
SqliteInserted(ih, name, totalSize) ==
  IF Conflicts(ih) THEN {}
  ELSE {TorrentRow(MaxId(torrents) + 1, ih, name, totalSize, now)}

\* res.LastInsertId() is the connection's last insert rowid: the id of the
\* new row, or - when the insert was ignored - the rowid of whichever row
\* that connection inserted last.
SqliteLastInsertId(c, inserted) ==
  IF inserted = {} THEN conns[c].lastRowid
  ELSE (CHOOSE t \in inserted : TRUE).id

\* postgres: INSERT ... ON CONFLICT DO NOTHING RETURNING id.  The id comes
\* from the sequence of the SERIAL column, which the statement advances even
\* when the row is not inserted.
PostgresInserted(ih, name, totalSize) ==
  IF Conflicts(ih) THEN {}
  ELSE {TorrentRow(tseq + 1, ih, fixUTF8Encoding(name), totalSize, now)}

\* postgres makes the INSERT wait while another transaction holds an
\* uncommitted row with the same info_hash.
PostgresMustWait(p, ih) ==
  \E q \in Procs \ {p} : tx[q].active /\ \E t \in tx[q].pending : t.info_hash = ih

AddNewTorrentInsert(p, ih, name, fs) ==
  /\ Idle(p)
  /\ nAdds < MaxAdds
  /\ nAdds' = nAdds + 1
  /\ UNCHANGED <<walk, web, userVersion, statistics, gen>>
  /\ LET totalSize == SumSizes(fs) IN
     \E c \in Acquirable :
       IF totalSize = 0
       THEN \* "the database will not accept total_size to be zero": return nil
            /\ last' = AddResult(ih, name, fs, FALSE, Conflicts(ih))
            /\ returnedNil' = returnedNil \cup {ih}
            /\ conns' = Acquired(c)
            /\ UNCHANGED <<engine, torrents, files, tseq, fseq, tx, now>>
       ELSE IF engine = "sqlite3"
       THEN \/ \* the INSERT fails with "database is locked"
               /\ WriteLocked(p)
               /\ last' = AddResult(ih, name, fs, TRUE, Conflicts(ih))
               /\ conns' = Acquired(c)
               /\ UNCHANGED <<engine, torrents, files, tseq, fseq, tx, now, returnedNil>>
            \/ /\ ~WriteLocked(p)
               /\ LET inserted == SqliteInserted(ih, name, totalSize)
                      id == SqliteLastInsertId(c, inserted)
                  IN  /\ tx' = [tx EXCEPT ![p] =
                                  [active |-> TRUE, conn |-> c, ih |-> ih, name |-> name,
                                   files |-> fs, lastInsertId |-> id, pending |-> inserted]]
                      /\ conns' = [Acquired(c) EXCEPT ![c].lastRowid = id]
               /\ UNCHANGED <<engine, torrents, files, tseq, fseq, now, last, returnedNil>>
       ELSE /\ ~PostgresMustWait(p, ih)
            /\ tseq' = tseq + 1
            /\ IF Conflicts(ih)
               THEN \* no row is returned: Scan fails with sql.ErrNoRows
                    /\ last' = AddResult(ih, name, fs, TRUE, TRUE)
                    /\ UNCHANGED <<tx>>
               ELSE /\ tx' = [tx EXCEPT ![p] =
                               [active |-> TRUE, conn |-> 0, ih |-> ih, name |-> name,
                                files |-> fs, lastInsertId |-> tseq + 1,
                                pending |-> PostgresInserted(ih, name, totalSize)]]
                    /\ UNCHANGED <<last>>
            /\ UNCHANGED <<engine, torrents, files, conns, fseq, now, returnedNil>>

\* The rows INSERT INTO files adds, one per file, all with torrent_id set
\* to lastInsertId; ids continue after firstId - 1.
NewFileRows(fs, lastInsertId, firstId, fix) ==
  {FileRow(firstId + i - 1, lastInsertId, fs[i].Size,
           IF fix THEN fixUTF8Encoding(fs[i].Path) ELSE fs[i].Path) : i \in 1..Len(fs)}

\* files.torrent_id REFERENCES torrents: with foreign_keys=ON the insert of
\* a file row fails unless the torrent row exists.
ForeignKeyOk(c, id, pending) ==
  conns[c].fk => \E t \in torrents \cup pending : t.id = id

AddNewTorrentCommit(p) ==
  /\ tx[p].active
  /\ LET t == tx[p] IN
     IF engine = "sqlite3"
     THEN IF ForeignKeyOk(t.conn, t.lastInsertId, t.pending)
          THEN LET rows == NewFileRows(t.files, t.lastInsertId, MaxId(files) + 1, FALSE) IN
               /\ files' = files \cup rows
               /\ torrents' = torrents \cup t.pending
               /\ conns' = [conns EXCEPT ![t.conn].lastRowid = MaxId(rows)]
               /\ last' = AddResult(t.ih, t.name, t.files, FALSE, t.pending = {})
               /\ returnedNil' = returnedNil \cup {t.ih}
          ELSE \* the deferred Rollback drops the transaction's rows
               /\ last' = AddResult(t.ih, t.name, t.files, TRUE, t.pending = {})
               /\ UNCHANGED <<torrents, files, conns, returnedNil>>
     ELSE /\ files' = files \cup NewFileRows(t.files, t.lastInsertId, fseq + 1, TRUE)
          /\ torrents' = torrents \cup t.pending
          /\ last' = AddResult(t.ih, t.name, t.files, FALSE, FALSE)
          /\ returnedNil' = returnedNil \cup {t.ih}
          /\ UNCHANGED <<conns>>
  /\ fseq' = IF engine = "sqlite3" THEN fseq ELSE fseq + Len(tx[p].files)
  /\ tx' = [tx EXCEPT ![p] = NoTx]
  /\ UNCHANGED <<engine, tseq, now, nAdds>>
  /\ UNCHANGED <<walk, web, userVersion, statistics, gen>>

Next ==
  \/ Tick
  \/ \E p \in Procs, ih \in InfoHashes : DoesTorrentExist(p, ih)
  \/ \E p \in Procs, ih \in InfoHashes : GetTorrent(p, ih)
  \/ \E p \in Procs, ih \in InfoHashes : GetFiles(p, ih)
  \/ \E p \in Procs : GetNumberOfTorrents(p)
  \/ \E p \in Procs, ih \in InfoHashes, name \in Names, fs \in FileLists :
       AddNewTorrentInsert(p, ih, name, fs)
  \/ \E p \in Procs : AddNewTorrentCommit(p)

Spec == Init /\ [][Next]_vars

\* ======================================================================
\* Properties
\* ======================================================================

\* A step in which an AddNewTorrent call returns: either it returns from
\* its first step, or its transaction ends.  last' is then its outcome.
AddReturns ==
  \/ nAdds' # nAdds /\ tx' = tx
  \/ \E p \in Procs : tx[p].active /\ ~tx'[p].active

\* C1: the torrents table holds at most one row per infohash, after any
\* sequence and under any interleaving of AddNewTorrent calls.
C1_AtMostOneRowPerInfoHash ==
  \A t, u \in torrents : t.info_hash = u.info_hash => t = u

\* An AddNewTorrent for an infohash that is already stored has executed its
\* INSERT and is about to insert its files.
C1_Witness ==
  \E p \in Procs :
    /\ tx[p].active
    /\ tx[p].pending = {}
    /\ Cardinality(RowsOf(tx[p].ih)) = 1

\* C2: an AddNewTorrent call for an infohash that is already stored returns
\* no error and leaves the torrents and the files table as they were.
C2_SecondAddIsSilentNoOp ==
  [][AddReturns /\ last'.existed
       => ~last'.err /\ torrents' = torrents /\ files' = files]_vars

\* C3: once AddNewTorrent(ih, ...) has returned without error, every later
\* DoesTorrentExist(ih) returns true.
C3_ExistsAfterAdd ==
  (last.op = "DoesTorrentExist" /\ last.ih \in returnedNil)
    => (last.exists /\ ~last.err)

\* C4: AddNewTorrent with a file list of total size 0 returns an error and
\* stores no torrent row and no file row.
C4_ZeroTotalSizeRejected ==
  [][AddReturns /\ SumSizes(last'.files) = 0
       => last'.err /\ torrents' = torrents /\ files' = files]_vars

\* C5: DoesTorrentExist returns false and no error for an infohash that no
\* AddNewTorrent call has stored (so for every infohash while the database
\* is empty), and it never changes the stored rows.
C5_NotStoredMeansNotExists ==
  /\ [](last.op = "DoesTorrentExist" /\ RowsOf(last.ih) = {}
          => ~last.exists /\ ~last.err)
  /\ [][(\E p \in Procs, ih \in InfoHashes : DoesTorrentExist(p, ih))
          => torrents' = torrents /\ files' = files]_vars

\* DoesTorrentExist was asked for an infohash that is not stored while
\* another one is.
C5_Witness ==
  /\ last.op = "DoesTorrentExist"
  /\ RowsOf(last.ih) = {}
  /\ torrents # {}
  /\ ~last.exists

\* A GetTorrent / GetFiles call that directly follows the return of a
\* successful AddNewTorrent of the same infohash on a database that did
\* not contain it.
AfterFreshAdd(op) ==
  /\ last.op = "AddNewTorrent"
  /\ ~last.err
  /\ ~last.existed
  /\ last'.op = op
  /\ last'.ih = last.ih

\* C6: after a successful AddNewTorrent(ih, name, files) on a database that
\* did not contain ih, GetTorrent(ih) returns metadata with Name = name,
\* Size = the sum of the file sizes (> 0) and NFiles = the number of files.
C6_GetTorrentAfterAdd ==
  [][AfterFreshAdd("GetTorrent")
       => /\ last'.tm # <<>>
          /\ last'.tm[1].Name = last.name
          /\ last'.tm[1].Size = SumSizes(last.files)
          /\ last'.tm[1].Size > 0
          /\ last'.tm[1].NFiles = Len(last.files)]_vars

\* C7: after a successful AddNewTorrent(ih, name, files) on a database that
\* did not contain ih, GetFiles(ih) returns exactly the files passed in.
C7_GetFilesAfterAdd ==
  [][AfterFreshAdd("GetFiles") => ~last'.err /\ last'.fl = last.files]_vars

\* C8: GetTorrent(ih) returns (nil, nil) when no torrent with infohash ih
\* is stored and non-nil metadata, without error, when one is.
C8_GetTorrentNilIffAbsent ==
  last.op = "GetTorrent"
    => /\ ~last.err
       /\ (last.tm = <<>>) <=> (RowsOf(last.ih) = {})
       /\ last.tm # <<>> => last.tm[1].InfoHash = last.ih

\* GetTorrent returned nil for an infohash that is not stored while another
\* torrent is.
C8_Witness ==
  /\ last.op = "GetTorrent"
  /\ last.tm = <<>>
  /\ torrents # {}

\* C9: a torrent row gets discovered_on = the clock at the time of the
\* AddNewTorrent call; the DiscoveredOn a later GetTorrent returns is not
\* greater than the clock then; discovered_on of a stored row never changes.
C9_DiscoveredOnIsNow ==
  /\ [](last.op = "GetTorrent" /\ last.tm # <<>> => last.tm[1].DiscoveredOn <= now)
  /\ [](engine = "sqlite3" /\ last.op = "GetTorrent" /\ last.tm # <<>>
          => \E t \in RowsOf(last.ih) : last.tm[1].DiscoveredOn = t.discovered_on)
  /\ [][\A p \in Procs : \A t \in tx'[p].pending \ tx[p].pending :
          t.discovered_on = now]_vars
  /\ [][\A t \in torrents : t \in torrents']_vars

\* GetTorrent returned a torrent that was discovered before the present
\* clock value.
C9_Witness ==
  /\ engine = "sqlite3"
  /\ last.op = "GetTorrent"
  /\ last.tm # <<>>
  /\ last.tm[1].DiscoveredOn < now
  /\ last.tm[1].DiscoveredOn > 0

\* C10: GetNumberOfTorrents returns, without error, the number of distinct
\* infohashes stored.
C10_NumberOfTorrents ==
  last.op = "GetNumberOfTorrents"
    => ~last.err /\ last.n = Cardinality({t.info_hash : t \in torrents})

\* ======================================================================
\* Queries over a populated database
\* ======================================================================
\* The read-only queries are functions of the stored rows.  They are
\* checked on every database a sequence of successful AddNewTorrent calls
\* with distinct infohashes leaves behind: rows 1..k, ids in insertion
\* order, discovered_on not decreasing with the id, every torrent with its
\* file rows.  discovered_on and the arguments of GetStatistics count hours.

MaxRows == 2
MaxN == 2
MaxLimit == 2

NameB == <<98>>
QueryNames == {NameA, NameB}
StoredFileLists == {fs \in FileLists : SumSizes(fs) > 0}
DiscoveredOns == {1, 2}

RowKinds == [name : QueryNames, files : StoredFileLists, on : DiscoveredOns]

\* The contents of rows 1..k, in insertion order.
Histories(k) ==
  {h \in [1..k -> RowKinds] : \A i \in 1..k : \A j \in 1..k : i < j => h[i].on <= h[j].on}

TorrentsOf(h, k) ==
  {TorrentRow(i, i, h[i].name, SumSizes(h[i].files), h[i].on) : i \in 1..k}

RECURSIVE FilesBefore(_, _)
FilesBefore(h, i) == IF i <= 1 THEN 0 ELSE Len(h[i - 1].files) + FilesBefore(h, i - 1)

FilesOfHistory(h, k) ==
  UNION {NewFileRows(h[i].files, i, FilesBefore(h, i) + 1, FALSE) : i \in 1..k}

PopulatedUpTo(maxRows) ==
  /\ engine \in {"sqlite3", "postgres"}
  /\ \E k \in 0..maxRows : \E h \in Histories(k) :
       /\ torrents = TorrentsOf(h, k)
       /\ files = FilesOfHistory(h, k)
       /\ tseq = k
       /\ fseq = Cardinality(FilesOfHistory(h, k))
       /\ conns = [c \in Conns |->
                    [open |-> (c = 1), fk |-> (c = 1 /\ engine = "sqlite3"),
                     lastRowid |-> IF engine = "sqlite3" THEN MaxId(FilesOfHistory(h, k)) ELSE 0]]
       /\ nAdds = k
       /\ returnedNil = 1..k
  /\ tx = [p \in Procs |-> NoTx]
  /\ now = 2
  /\ last = NoCall
  /\ walk = NoWalk
  /\ web = NoWeb
  /\ userVersion = setupDatabaseResult(engine, 0).version
  /\ statistics = {}
  /\ gen = NoGen

Populated == PopulatedUpTo(MaxRows)

QueryFrame ==
  UNCHANGED <<engine, torrents, files, conns, tseq, fseq, tx, now, returnedNil, nAdds>>

\* ---------------------------------------------------------- GetStatistics
Granularities == {"Hour", "Day", "Week", "Month", "Year"}

\* time.ParseDuration of "1h", "24h", "168h", "720h", "8760h", in hours.
IntervalOf(granularity) ==
  CASE granularity = "Hour" -> 1
    [] granularity = "Day" -> 24
    [] granularity = "Week" -> 168
    [] granularity = "Month" -> 720
    [] granularity = "Year" -> 8760

\* The @from strings, told apart by what ParseISO8601 makes of them: an
\* error, or a point in time and the granularity of the notation.
FromStrings ==
  [valid : {TRUE}, time : {0, 1}, granularity : Granularities]
    \cup {[valid |-> FALSE, time |-> 0, granularity |-> "Hour"]}

ParseISO8601(from) ==
  [err |-> ~from.valid, time |-> from.time, granularity |-> from.granularity]

RECURSIVE SumTotalSize(_)
SumTotalSize(rows) ==
  IF rows = {} THEN 0
  ELSE LET t == CHOOSE t \in rows : TRUE IN t.total_size + SumTotalSize(rows \ {t})

\* Mutation: the lower end of the interval is included as well.
BucketTorrents_Inclusive(from, until) ==
  {t \in torrents : t.discovered_on >= from /\ t.discovered_on <= until}

\* WHERE discovered_on > ? AND discovered_on <= ?
BucketTorrents(from, until) ==
  {t \in torrents : t.discovered_on > from /\ t.discovered_on <= until}

\* COUNT(f.id) FROM files f INNER JOIN torrents t ON f.torrent_id = t.id
BucketNFiles(from, until) ==
  Cardinality({f \in files : \E t \in BucketTorrents(from, until) : f.torrent_id = t.id})

\* Mutation: the else branch is missing, an empty interval appends nothing
\* to NFiles and TotalSize.
AppendCounts_NoElse(stats, nTorrents, nFiles, totalSize) ==
  IF nTorrents # 0
  THEN [stats EXCEPT !.NTorrents = Append(@, nTorrents),
                     !.NFiles = Append(@, nFiles),
                     !.TotalSize = Append(@, totalSize)]
  ELSE [stats EXCEPT !.NTorrents = Append(@, nTorrents)]

\* One iteration's appends: the counts of the interval, or zeroes when the
\* interval holds no torrent.
AppendCounts(stats, nTorrents, nFiles, totalSize) ==
  IF nTorrents # 0
  THEN [stats EXCEPT !.NTorrents = Append(@, nTorrents),
                     !.NFiles = Append(@, nFiles),
                     !.TotalSize = Append(@, totalSize)]
  ELSE [stats EXCEPT !.NTorrents = Append(@, nTorrents),
                     !.NFiles = Append(@, 0),
                     !.TotalSize = Append(@, 0)]

RECURSIVE StatsLoop(_, _, _, _, _)
StatsLoop(i, n, from, interval, stats) ==
  IF i >= n THEN stats
  ELSE LET until == from + interval IN
       StatsLoop(i + 1, n, until, interval,
                 AppendCounts(stats,
                              Cardinality(BucketTorrents(from, until)),
                              BucketNFiles(from, until),
                              SumTotalSize(BucketTorrents(from, until))))

\* stats is <<>> for a nil *Statistics.  postgres: "TODO", returns nil, nil.
GetStatisticsResultOn(e, n, from) ==
  IF e = "sqlite3"
  THEN LET parsed == ParseISO8601(from) IN
       IF parsed.err THEN [err |-> TRUE, stats |-> <<>>]
       ELSE [err |-> FALSE,
             stats |-> <<StatsLoop(0, n, parsed.time, IntervalOf(parsed.granularity),
                                   [N |-> n, NTorrents |-> <<>>, NFiles |-> <<>>,
                                    TotalSize |-> <<>>])>>]
  ELSE [err |-> FALSE, stats |-> <<>>]

GetStatisticsResult(n, from) == GetStatisticsResultOn(engine, n, from)

GetStatistics(n, from) ==
  /\ last' = [Call("GetStatistics", 0) EXCEPT
                !.args = <<n, from>>,
                !.err = GetStatisticsResult(n, from).err,
                !.stats = GetStatisticsResult(n, from).stats]
  /\ QueryFrame
  /\ UNCHANGED <<walk, web, userVersion, statistics, gen>>

SpecStatistics ==
  Populated /\ [][\E n \in 0..MaxN : \E from \in FromStrings : GetStatistics(n, from)]_vars

\* The interval of index i (from 1) of a GetStatistics(n, from) call, as
\* the documentation of the result describes it.
InInterval(t, from, i) ==
  LET parsed == ParseISO8601(from)
      interval == IntervalOf(parsed.granularity)
  IN /\ t.discovered_on > parsed.time + (i - 1) * interval
     /\ t.discovered_on <= parsed.time + i * interval

StatisticsReturned ==
  /\ last.op = "GetStatistics"
  /\ engine = "sqlite3"
  /\ ~last.err

\* C11: on sqlite3, a successful GetStatistics(n, from) returns Statistics
\* with N = n and with NTorrents, NFiles and TotalSize of length n each.
C11_StatisticsHaveLengthN ==
  StatisticsReturned =>
    /\ last.stats # <<>>
    /\ last.stats[1].N = last.args[1]
    /\ Len(last.stats[1].NTorrents) = last.args[1]
    /\ Len(last.stats[1].NFiles) = last.args[1]
    /\ Len(last.stats[1].TotalSize) = last.args[1]

\* A successful call with two intervals, one empty and one with a torrent.
C11_Witness ==
  /\ StatisticsReturned
  /\ last.stats # <<>>
  /\ last.args[1] = 2
  /\ \E i \in 1..2 : last.stats[1].NTorrents[i] = 0
  /\ \E i \in 1..2 : last.stats[1].NTorrents[i] > 0

\* C12: on sqlite3, entry i of a successful GetStatistics(n, from) counts
\* exactly the stored torrents with discovered_on in
\* (from + i*interval, from + (i+1)*interval]: their number, the number of
\* their file rows and the sum of their total sizes, and three zeroes when
\* there is none; the intervals are consecutive and disjoint, so no torrent
\* is counted twice.
C12_StatisticsCountEachInterval ==
  StatisticsReturned =>
    LET n == last.args[1]
        from == last.args[2]
        stats == last.stats[1]
        In(i) == {t \in torrents : InInterval(t, from, i)}
    IN /\ \A i \in 1..n :
            /\ i <= Len(stats.NTorrents) /\ stats.NTorrents[i] = Cardinality(In(i))
            /\ i <= Len(stats.NFiles)
            /\ stats.NFiles[i] =
                 Cardinality({f \in files : \E t \in In(i) : f.torrent_id = t.id})
            /\ i <= Len(stats.TotalSize) /\ stats.TotalSize[i] = SumTotalSize(In(i))
            /\ In(i) = {} =>
                 stats.NTorrents[i] = 0 /\ stats.NFiles[i] = 0 /\ stats.TotalSize[i] = 0
       /\ \A t \in torrents :
            Cardinality({i \in 1..n : InInterval(t, from, i)}) <= 1
       /\ \A i \in 1..n : \A t \in In(i) :
            /\ t.discovered_on > ParseISO8601(from).time
            /\ i > 1 => \A u \in In(i - 1) : u.discovered_on < t.discovered_on

\* Two one-hour intervals from hour 0, with a torrent on the boundary
\* between them (discovered_on = 1) and one at the end of the second.
C12_Witness ==
  /\ StatisticsReturned
  /\ last.args[1] = 2
  /\ last.args[2].time = 0
  /\ last.args[2].granularity = "Hour"
  /\ last.stats[1].NTorrents = <<1, 1>>
  /\ last.stats[1].NFiles[1] # last.stats[1].NFiles[2]

\* ---------------------------------------------------------- QueryTorrents
OrderingCriterias ==
  {"ByRelevance", "BySize", "ByDiscoveredOn", "ByNFiles", "ByNSeeders", "ByNLeechers"}

\* "panic" stands for the panic of the default case.
orderOn(orderBy) ==
  CASE orderBy = "ByRelevance" -> "idx.rank"
    [] orderBy = "BySize" -> "total_size"
    [] orderBy = "ByDiscoveredOn" -> "discovered_on"
    [] orderBy = "ByNFiles" -> "n_files"
    [] OTHER -> "panic"

\* The words of a name, as the full-text index splits it at spaces.
RECURSIVE Tokens(_, _)
Tokens(s, word) ==
  IF s = <<>> THEN (IF word = <<>> THEN {} ELSE {word})
  ELSE IF Head(s) = 32
       THEN (IF word = <<>> THEN {} ELSE {word}) \cup Tokens(Tail(s), <<>>)
       ELSE Tokens(Tail(s), Append(word, Head(s)))

\* torrents_idx MATCH ?, for a query of one word.
Matches(name, query) == query \in Tokens(name, <<>>)

\* bm25(torrents_idx): a negative number, the better the match the smaller.
\* Every matching name of QueryNames is the query itself, so all have the
\* same rank.
Rank(t, query) == 0 - 1

ColumnOf(col, t, query) ==
  CASE col = "idx.rank" -> Rank(t, query)
    [] col = "total_size" -> t.total_size
    [] col = "discovered_on" -> t.discovered_on
    [] col = "n_files" -> NFilesOf(t.id)

\* FROM torrents [INNER JOIN (... MATCH ?) USING(id)] WHERE discovered_on <= ?
Eligible(query, epoch) ==
  {t \in torrents : /\ t.discovered_on <= epoch
                    /\ query # <<>> => Matches(t.name, query)}

\* Mutation: rows that share the last ordering value are skipped.
AfterCursor_NoTies(v, id, GTELTE, lastOrderedValue, lastID, backward) ==
  IF GTELTE THEN v > lastOrderedValue ELSE v < lastOrderedValue

\* (id > ? AND col = ?) OR (col > ?), with < for id when paging backward
\* and < for col when GTELTE is false.
AfterCursor(v, id, GTELTE, lastOrderedValue, lastID, backward) ==
  \/ /\ (IF backward THEN id < lastID ELSE id > lastID)
     /\ v = lastOrderedValue
  \/ (IF GTELTE THEN v > lastOrderedValue ELSE v < lastOrderedValue)

\* ORDER BY col ASC|DESC, id ASC
RowBefore(a, b, col, query, asc) ==
  LET va == ColumnOf(col, a, query)
      vb == ColumnOf(col, b, query)
  IN \/ (IF asc THEN va < vb ELSE va > vb)
     \/ va = vb /\ a.id < b.id

RECURSIVE OrderRows(_, _, _, _)
OrderRows(rows, col, query, asc) ==
  IF rows = {} THEN <<>>
  ELSE LET first == CHOOSE r \in rows :
                      \A q \in rows \ {r} : RowBefore(r, q, col, query, asc)
       IN <<first>> \o OrderRows(rows \ {first}, col, query, asc)

\* LIMIT ?
Limit(rows, limit) == SubSeq(rows, 1, IF Len(rows) < limit THEN Len(rows) ELSE limit)

QueryArgs ==
  [query : {<<>>, NameA}, epoch : {1, 2}, orderBy : OrderingCriterias,
   ascending : BOOLEAN, limit : 0..MaxLimit,
   lastOrderedValue : 0..3, lastID : 0..MaxRows, backward : BOOLEAN]

\* Mutation: ordering by relevance is refused whatever the query.
RelevanceRefused_AnyQuery(a) == a.orderBy = "ByRelevance"

\* if query == "" && orderBy == ByRelevance: the first statement of
\* QueryTorrents on both engines.
RelevanceRefused(a) == a.query = <<>> /\ a.orderBy = "ByRelevance"

\* The result of QueryTorrents: an error, a panic, or the rows.  why tells
\* the errors apart: "relevance" for "torrents cannot be ordered by
\* relevance when the query is empty", "cursor" for "lastOrderedValue and
\* lastID should be supplied together, if supplied".
QueryTorrentsResultOn(e, a) ==
  IF RelevanceRefused(a)
  THEN [err |-> TRUE, panic |-> FALSE, rows |-> <<>>, why |-> "relevance"]
  ELSE IF e # "sqlite3"
  THEN \* postgres: "TODO", an empty slice and no error
       [err |-> FALSE, panic |-> FALSE, rows |-> <<>>, why |-> ""]
  ELSE IF (a.lastOrderedValue = 0) # (a.lastID = 0)
  THEN [err |-> TRUE, panic |-> FALSE, rows |-> <<>>, why |-> "cursor"]
  ELSE IF orderOn(a.orderBy) = "panic"
  THEN [err |-> FALSE, panic |-> TRUE, rows |-> <<>>, why |-> ""]
  ELSE LET col == orderOn(a.orderBy)
           firstPage == a.lastID = 0
           GTELTE == a.ascending # a.backward
           selected ==
             {t \in Eligible(a.query, a.epoch) :
                firstPage \/ AfterCursor(ColumnOf(col, t, a.query), t.id, GTELTE,
                                         a.lastOrderedValue, a.lastID, a.backward)}
           ordered == Limit(OrderRows(selected, col, a.query, GTELTE), a.limit)
       IN [err |-> FALSE, panic |-> FALSE,
           rows |-> [i \in 1..Len(ordered) |-> MetadataOn(e, ordered[i])], why |-> ""]

QueryTorrentsResult(a) == QueryTorrentsResultOn(engine, a)

\* One call on the populated database: the result depends on nothing but
\* the stored rows and the arguments.
QueryTorrents(a) ==
  /\ LET r == QueryTorrentsResult(a) IN
       last' = [Call("QueryTorrents", 0) EXCEPT
                  !.args = a, !.err = r.err, !.panic = r.panic, !.rows = r.rows,
                  !.why = r.why]
  /\ QueryFrame
  /\ UNCHANGED <<walk, web, userVersion, statistics, gen>>

QueryNext == last = NoCall /\ \E a \in QueryArgs : QueryTorrents(a)

SpecQuery == Populated /\ [][QueryNext]_vars

QueryReturned ==
  /\ last.op = "QueryTorrents"
  /\ ~last.err
  /\ ~last.panic

\* The stored torrents a returned row can stand for.
StoredAs(row) ==
  {t \in torrents : t.info_hash = row.InfoHash /\ t.name = row.Name
                      /\ t.total_size = row.Size}

Min(a, b) == IF a < b THEN a ELSE b

\* C13: a successful QueryTorrents returns at most limit torrents, each of
\* them stored, discovered not later than epoch and, when the query is not
\* empty, matching the query; with an empty query every stored torrent
\* discovered up to epoch is eligible, so that a first page is short of
\* limit only when there are no more such torrents.
C13_QueryReturnsEligibleTorrents ==
  QueryReturned =>
    LET a == last.args IN
    /\ Len(last.rows) <= a.limit
    /\ \A i \in 1..Len(last.rows) :
         \E t \in StoredAs(last.rows[i]) :
            /\ t.discovered_on <= a.epoch
            /\ a.query # <<>> => Matches(t.name, a.query)
    /\ a.query = <<>> /\ a.lastID = 0 /\ a.lastOrderedValue = 0 =>
         Len(last.rows) =
           Min(a.limit, Cardinality({t \in torrents : t.discovered_on <= a.epoch}))

\* C14: the torrents QueryTorrents returns are in ascending order of the
\* orderBy column when ascending is true and in descending order
\* otherwise, rows with the same value in the order of their ids, whatever
\* orderBy, ascending and backward are.
C14_QueryOrderedAsAsked ==
  QueryReturned /\ engine = "sqlite3" =>
    LET a == last.args
        Value(row) ==
          CASE a.orderBy = "BySize" -> row.Size
            [] a.orderBy = "ByDiscoveredOn" -> row.DiscoveredOn
            [] a.orderBy = "ByNFiles" -> row.NFiles
            [] OTHER -> 0
    IN \A i \in 1..Len(last.rows) : \A j \in 1..Len(last.rows) :
         i < j =>
           \/ (IF a.ascending THEN Value(last.rows[i]) < Value(last.rows[j])
                              ELSE Value(last.rows[i]) > Value(last.rows[j]))
           \/ /\ Value(last.rows[i]) = Value(last.rows[j])
              /\ last.rows[i].ID < last.rows[j].ID

\* ======================================================================
\* magneticow: main and the HTTP handlers
\* ======================================================================
WebRows == 1
N_TORRENTS == 20

\* The database the --database URL points at, before magneticow is started:
\* nothing yet (version 0), or what a crawler that opened it once left
\* (version 4; a postgres database is then at its version 1, which the
\* postgres engine cannot open again).
InitWeb ==
  /\ engine = "none"
  /\ \E k \in 0..WebRows : \E h \in Histories(k) :
       /\ userVersion \in (IF k = 0 THEN {0} ELSE {}) \cup {4}
       /\ torrents = TorrentsOf(h, k)
       /\ files = FilesOfHistory(h, k)
       /\ tseq = k
       /\ fseq = Cardinality(FilesOfHistory(h, k))
       /\ nAdds = k
       /\ returnedNil = 1..k
  /\ conns = [c \in Conns |-> [open |-> FALSE, fk |-> FALSE, lastRowid |-> 0]]
  /\ tx = [p \in Procs |-> NoTx]
  /\ now = 2
  /\ last = NoCall
  /\ walk = NoWalk
  /\ web = NoWeb
  /\ statistics = {}
  /\ gen = NoGen

WebFrame ==
  UNCHANGED <<torrents, files, tseq, fseq, tx, now, last, returnedNil, nAdds, walk,
              statistics, gen>>

\* os.Exit(status), or the status the runtime exits with.
Exited(status, cause) ==
  [web EXCEPT !.pc = "exited", !.exit = status, !.cause = cause]

Schemes == {"sqlite3", "postgresql", "mysql", "other"}

\* The command line: whether go-flags can parse it, the --database URL
\* (its scheme, or "unparseable" when url.Parse fails) and the --bind
\* address ("unresolvable" fails net.ResolveTCPAddr, "in use" resolves but
\* cannot be bound).
CommandLines ==
  [flags : {"ok", "unparseable"}, url : Schemes \cup {"unparseable"},
   bind : {"ok", "unresolvable", "in use"}]

\* zap's Fatal logs and calls os.Exit(1).
parseFlagsResult(cmd) ==
  IF cmd.flags # "ok" THEN [err |-> TRUE, fatal |-> "none"]
  ELSE IF cmd.url = "unparseable" THEN [err |-> FALSE, fatal |-> "database URL"]
  ELSE IF cmd.bind = "unresolvable" THEN [err |-> FALSE, fatal |-> "bind address"]
  ELSE [err |-> FALSE, fatal |-> "none"]

\* main, up to the call of MakeDatabase.  When parseFlags returns an error
\* main returns, and the process exits with status 0.
mainParseFlags(cmd) ==
  /\ web.pc = "start"
  /\ LET r == parseFlagsResult(cmd) IN
       web' = IF r.err THEN Exited(0, "flags")
              ELSE IF r.fatal # "none" THEN Exited(1, r.fatal)
              ELSE [web EXCEPT !.pc = "parsed", !.scheme = cmd.url, !.bind = cmd.bind]
  /\ UNCHANGED <<engine, conns, userVersion>>
  /\ WebFrame

\* Mutation: every scheme opens the sqlite3 engine.
EngineOfScheme_AlwaysSqlite3(scheme) == "sqlite3"

\* The engine MakeDatabase's switch picks, "none" for the two error cases.
EngineOfScheme(scheme) ==
  CASE scheme = "sqlite3" -> "sqlite3"
    [] scheme = "postgresql" -> "postgres"
    [] OTHER -> "none"

\* reachable: whether MkdirAll, sql.Open, Ping and the statements of
\* setupDatabase succeed.  A postgres database that is not new is at the
\* postgres version 1, where setupDatabase fails.  handle is the engine of the
\* Database returned, "none" for a nil Database; version is the schema
\* version the database stores afterwards.
MakeDatabaseResult(scheme, reachable) ==
  LET e == EngineOfScheme(scheme) IN
  IF e = "none" \/ ~reachable \/ (e = "postgres" /\ userVersion > 1)
  THEN [err |-> TRUE, handle |-> "none", version |-> userVersion]
  ELSE IF setupDatabaseResult(e, userVersion).err
  THEN [err |-> TRUE, handle |-> "none", version |-> userVersion]
  ELSE [err |-> FALSE, handle |-> e,
        version |-> setupDatabaseResult(e, userVersion).version]

\* main panics with the error of MakeDatabase: the runtime exits with 2.
mainMakeDatabase(reachable) ==
  /\ web.pc = "parsed"
  /\ LET r == MakeDatabaseResult(web.scheme, reachable) IN
       /\ engine' = r.handle
       /\ userVersion' = r.version
       /\ web' = IF r.err THEN Exited(2, "database") ELSE [web EXCEPT !.pc = "ready"]
       /\ conns' = IF r.err THEN conns
                   ELSE [conns EXCEPT ![1] = [open |-> TRUE, fk |-> (r.handle = "sqlite3"),
                                             lastRowid |-> 0]]
  /\ WebFrame

\* http.ListenAndServe returns only with an error, which main drops: main
\* returns and the process exits with status 0.
mainListenAndServe ==
  /\ web.pc = "ready"
  /\ web' = IF web.bind = "in use" THEN Exited(0, "listen")
            ELSE [web EXCEPT !.pc = "serving", !.scheme = "", !.bind = ""]
  /\ UNCHANGED <<engine, conns, userVersion>>
  /\ WebFrame

\* ------------------------------------------------------------ the handlers
\* A handler that panics writes no response: net/http recovers the panic
\* and closes the connection.  status 0 stands for "no response".
Response(handler, orderBy, status) ==
  [web EXCEPT !.handler = handler, !.orderBy = orderBy, !.status = status,
              !.panic = FALSE, !.td = <<>>]

Panicked(handler, orderBy) ==
  [web EXCEPT !.handler = handler, !.orderBy = orderBy, !.status = 0, !.panic = TRUE,
              !.td = <<>>]

\* strconv.ParseUint / ParseInt of a query value.
ParseUint(str) ==
  CASE str = "1" -> [err |-> FALSE, value |-> 1]
    [] str = "2" -> [err |-> FALSE, value |-> 2]
    [] OTHER -> [err |-> TRUE, value |-> 0]

\* The query values of a GET /torrents; "" is an absent value and "x" one
\* that is not a number.  Every combination of the values that parse, and
\* each value that does not parse on an otherwise plain request.
TorrentsRequests ==
  [search : {<<>>, NameA},
   orderBy : {"", "size", "discovered", "files", "seeders", "leechers"},
   ascending : {"", "1"}, backward : {"", "1"},
   limit : {"", "1"}, epoch : {"", "2"},
   cursor : {<<"", "">>, <<"1", "1">>, <<"1", "">>}]
  \cup
  [search : {<<>>}, orderBy : {""}, ascending : {""}, backward : {""},
   limit : {"", "x"}, epoch : {"2", "x"},
   cursor : {<<"1", "1">>, <<"x", "1">>, <<"1", "x">>}]

\* The switch on the orderBy value.
OrderByOf(req) ==
  CASE req.orderBy = "size" -> "BySize"
    [] req.orderBy = "discovered" -> "ByDiscoveredOn"
    [] req.orderBy = "files" -> "ByNFiles"
    [] req.orderBy = "seeders" -> "ByNSeeders"
    [] req.orderBy = "leechers" -> "ByNLeechers"
    [] OTHER -> IF req.search = <<>> THEN "ByDiscoveredOn" ELSE "ByRelevance"

\* The arguments torrentsHandler calls QueryTorrents with.  The cursor is
\* read only when an epoch is given.
TorrentsArgs(req) ==
  LET withCursor == req.epoch # "" /\ req.cursor[1] # "" /\ req.cursor[2] # "" IN
  [query |-> req.search,
   epoch |-> IF req.epoch = "" THEN now ELSE ParseUint(req.epoch).value,
   orderBy |-> OrderByOf(req),
   ascending |-> req.ascending # "",
   limit |-> IF req.limit = "" THEN N_TORRENTS ELSE ParseUint(req.limit).value,
   lastOrderedValue |-> IF withCursor THEN ParseUint(req.cursor[1]).value ELSE 0,
   lastID |-> IF withCursor THEN ParseUint(req.cursor[2]).value ELSE 0,
   backward |-> req.backward # ""]

\* The status torrentsHandler has written before it calls QueryTorrents,
\* 0 for none; returned tells whether the handler has returned by then.
TorrentsParse(req) ==
  IF req.limit # "" /\ ParseUint(req.limit).err
  THEN [status |-> 400, returned |-> TRUE]
  ELSE IF req.epoch = "" THEN [status |-> 0, returned |-> FALSE]
  ELSE IF ParseUint(req.epoch).err THEN [status |-> 400, returned |-> TRUE]
  ELSE IF req.cursor[1] # "" /\ req.cursor[2] # ""
       THEN IF ParseUint(req.cursor[1]).err \/ ParseUint(req.cursor[2]).err
            THEN [status |-> 400, returned |-> TRUE]
            ELSE [status |-> 0, returned |-> FALSE]
       ELSE \* 400 is written, and the handler goes on
            [status |-> 400, returned |-> FALSE]

\* dbError: the connection to the database fails during the request.
\* sqlite3 reaches the database only after its argument checks and after
\* orderOn; the postgres stub never touches it.
\* The data of the torrents template, written once QueryTorrents has
\* returned its rows.  The two ordered values are nil (<<>>) on an empty
\* page; LastID then still holds the lastID of the request.
torrentsHandler(req, dbError) ==
  /\ web.pc = "serving"
  /\ LET parsed == TorrentsParse(req)
         args == TorrentsArgs(req)
         r == QueryTorrentsResult(args)
         failed == r.err \/ (dbError /\ engine = "sqlite3" /\ ~r.panic)
         by == OrderByOf(req)
         torrents_ == r.rows
         n == Len(torrents_)
         td == [Torrents |-> torrents_,
                FirstOrderedValue |->
                  IF n # 0 THEN <<torrents_[1].DiscoveredOn>> ELSE <<>>,
                LastOrderedValue |->
                  IF n # 0 THEN <<torrents_[n].DiscoveredOn>> ELSE <<>>,
                FirstID |-> IF n # 0 THEN torrents_[1].ID ELSE 0,
                LastID |-> IF n # 0 THEN torrents_[n].ID ELSE args.lastID]
     IN web' = IF parsed.returned THEN Response("torrents", by, parsed.status)
               ELSE IF r.panic THEN Panicked("torrents", by)
               ELSE IF failed
               THEN Response("torrents", by,
                             IF parsed.status # 0 THEN parsed.status ELSE 500)
               ELSE [Response("torrents", by,
                              IF parsed.status # 0 THEN parsed.status ELSE 200)
                       EXCEPT !.td = <<td>>]
  /\ UNCHANGED <<engine, conns, userVersion>>
  /\ WebFrame

rootHandler(dbError) ==
  /\ web.pc = "serving"
  /\ web' = IF GetNumberOfTorrentsResult.err \/ dbError
            THEN Response("root", "", 500)
            ELSE Response("root", "", 200)
  /\ UNCHANGED <<engine, conns, userVersion>>
  /\ WebFrame

\* The route takes 40 characters of [a-z0-9]; hex.DecodeString rejects the
\* letters after f.  ih is the infohash of a well-formed path, 0 stands for
\* a path that does not decode.
torrentsInfohashHandler(ih, dbError) ==
  /\ web.pc = "serving"
  /\ web' = IF ih = 0 THEN Response("torrent", "", 400)
            ELSE IF dbError THEN Response("torrent", "", 500)
            ELSE IF GetTorrentResult(ih) = <<>> THEN Response("torrent", "", 404)
            ELSE IF GetFilesResult(ih).err THEN Response("torrent", "", 500)
            ELSE Response("torrent", "", 200)
  /\ UNCHANGED <<engine, conns, userVersion>>
  /\ WebFrame

\* stats is dereferenced whenever err is nil.
statisticsHandler(from, dbError) ==
  /\ web.pc = "serving"
  /\ LET r == GetStatisticsResult(30, from) IN
       web' = IF r.err \/ (dbError /\ engine = "sqlite3")
              THEN Response("statistics", "", 400)
              ELSE IF r.stats = <<>> THEN Panicked("statistics", "")
              ELSE Response("statistics", "", 200)
  /\ UNCHANGED <<engine, conns, userVersion>>
  /\ WebFrame

\* The dates statisticsHandler formats: days, valid or not for ParseISO8601.
StatisticsFroms ==
  {[valid |-> v, time |-> 0, granularity |-> "Day"] : v \in BOOLEAN}

NextWeb ==
  \/ \E cmd \in CommandLines : mainParseFlags(cmd)
  \/ \E reachable \in BOOLEAN : mainMakeDatabase(reachable)
  \/ mainListenAndServe
  \/ \E dbError \in BOOLEAN : rootHandler(dbError)
  \/ \E req \in TorrentsRequests :
       \E dbError \in {FALSE} \cup (IF req.orderBy = "" THEN {TRUE} ELSE {}) :
         torrentsHandler(req, dbError)
  \/ \E ih \in {0} \cup InfoHashes : \E dbError \in BOOLEAN :
       torrentsInfohashHandler(ih, dbError)
  \/ \E from \in StatisticsFroms : \E dbError \in BOOLEAN : statisticsHandler(from, dbError)

SpecWeb == InitWeb /\ [][NextWeb]_vars

MakeDatabaseReturned ==
  web.pc = "ready" \/ (web.pc = "exited" /\ web.cause = "database")

\* C15: MakeDatabase picks the engine by the scheme of the URL: a database
\* it returns for sqlite3 has Engine() = Sqlite3, one it returns for
\* postgresql has Engine() = Postgres, and for mysql or any other scheme it
\* returns an error and no database.
C15_EngineByScheme ==
  MakeDatabaseReturned =>
    /\ web.pc = "ready" =>
         \/ web.scheme = "sqlite3" /\ engine = "sqlite3"
         \/ web.scheme = "postgresql" /\ engine = "postgres"
    /\ web.scheme \notin {"sqlite3", "postgresql"} =>
         web.pc = "exited" /\ engine = "none"
    /\ web.pc = "exited" => engine = "none"

\* MakeDatabase has returned a postgres database for a postgresql URL.
C15_Witness ==
  web.pc = "ready" /\ web.scheme = "postgresql" /\ engine = "postgres"

\* C17: when startup fails (flags that do not parse, a bad database URL, a
\* listen address that cannot be bound, a database that cannot be reached)
\* the process exits with a nonzero status without having served; it
\* exits with 0 only on a normal shutdown.
C17_FatalStartupExitsNonzero ==
  web.pc = "exited" =>
    /\ web.cause # "none" => web.exit # 0
    /\ web.handler = "none"

\* C18: a handler that has run has written a response and has not
\* panicked, whatever the request, the orderBy value and the outcome of
\* the database calls.
C18_HandlersRespond ==
  web.handler # "none" => ~web.panic /\ web.status # 0

\* C16: bytes that are not UTF-8 in a name or a path given to AddNewTorrent
\* are replaced before the row is written: every stored name and every
\* stored path is valid UTF-8, and a valid, non-empty name is stored as it
\* was given.
C16_StoredTextIsValidUTF8 ==
  /\ \A t \in torrents : ValidString(t.name)
  /\ \A f \in files : ValidString(f.path)
  /\ (last.op = "AddNewTorrent" /\ ~last.err /\ ~last.existed
        /\ SumSizes(last.files) > 0 /\ ValidString(last.name) /\ last.name # <<>>) =>
       \A t \in RowsOf(last.ih) : t.name = last.name

\* ======================================================================
\* Paging through QueryTorrents
\* ======================================================================
\* A caller pages forward from the first page, each time with the cursor
\* of the last row it got, until a page comes back empty; then it may ask
\* for the page before one of its pages, with the cursor of that page's
\* first row.  The database does not change meanwhile.
WalkRows == 3

InitWalk == PopulatedUpTo(WalkRows)

\* The orderings whose column a returned TorrentMetadata carries.
WalkOrderings == {"BySize", "ByDiscoveredOn", "ByNFiles"}

WalkArgs ==
  [query : {<<>>, NameA}, epoch : {1, 2}, orderBy : WalkOrderings,
   ascending : BOOLEAN, limit : 0..MaxLimit]

\* The value of the ordering column in a returned row.
OrderedValue(orderBy, row) ==
  CASE orderBy = "BySize" -> row.Size
    [] orderBy = "ByDiscoveredOn" -> row.DiscoveredOn
    [] orderBy = "ByNFiles" -> row.NFiles

\* The page QueryTorrents returns for the walk's arguments and a cursor.
Page(a, lastOrderedValue, lastID, backward) ==
  QueryTorrentsResult(
    [query |-> a.query, epoch |-> a.epoch, orderBy |-> a.orderBy,
     ascending |-> a.ascending, limit |-> a.limit,
     lastOrderedValue |-> lastOrderedValue, lastID |-> lastID,
     backward |-> backward]).rows

WalkFrame ==
  UNCHANGED <<engine, torrents, files, conns, tseq, fseq, tx, now, last,
              returnedNil, nAdds, web, userVersion, statistics, gen>>

WalkStart(a) ==
  /\ ~walk.active
  /\ LET page == Page(a, 0, 0, FALSE) IN
       walk' = [active |-> TRUE, args |-> a,
                pages |-> IF page = <<>> THEN <<>> ELSE <<page>>,
                done |-> (page = <<>>), back |-> <<>>]
  /\ WalkFrame

WalkNext ==
  /\ walk.active
  /\ ~walk.done
  /\ LET prev == walk.pages[Len(walk.pages)]
         lastRow == prev[Len(prev)]
         page == Page(walk.args, OrderedValue(walk.args.orderBy, lastRow), lastRow.ID, FALSE)
     IN walk' = IF page = <<>> THEN [walk EXCEPT !.done = TRUE]
                ELSE [walk EXCEPT !.pages = Append(@, page)]
  /\ WalkFrame

\* backward = true with the cursor of the first row of page k + 1.
WalkBack(k) ==
  /\ walk.done
  /\ walk.back = <<>>
  /\ k + 1 <= Len(walk.pages)
  /\ LET firstRow == walk.pages[k + 1][1] IN
       walk' = [walk EXCEPT !.back =
                  <<[k |-> k,
                     rows |-> Page(walk.args,
                                   OrderedValue(walk.args.orderBy, firstRow),
                                   firstRow.ID, TRUE)]>>]
  /\ WalkFrame

NextWalk ==
  \/ \E a \in WalkArgs : WalkStart(a)
  \/ WalkNext
  \/ \E k \in 1..WalkRows : WalkBack(k)

SpecWalk == InitWalk /\ [][NextWalk]_vars

\* The rows of all pages, in the order they were returned.
RECURSIVE Flatten(_)
Flatten(pages) == IF pages = <<>> THEN <<>> ELSE Head(pages) \o Flatten(Tail(pages))

Range(seq) == {seq[i] : i \in 1..Len(seq)}

WalkFinished == walk.done /\ engine = "sqlite3"

C20_BackwardReturnsPreviousPage ==
  walk.back # <<>> /\ engine = "sqlite3" =>
    Range(walk.back[1].rows) = Range(walk.pages[walk.back[1].k])

\* The torrents template has been executed on a page that is not empty.
PageRendered ==
  /\ web.handler = "torrents"
  /\ web.td # <<>>
  /\ web.td[1].Torrents # <<>>
  /\ web.orderBy \in WalkOrderings

\* C21: the cursor torrentsHandler hands to the template is the value of
\* the column the page is ordered by, and the id, of the first and of the
\* last torrent of the page, for every orderBy.
C21_CursorIsOrderingColumn ==
  PageRendered =>
    LET td == web.td[1]
        first == td.Torrents[1]
        lastRow == td.Torrents[Len(td.Torrents)]
    IN /\ td.FirstOrderedValue = <<OrderedValue(web.orderBy, first)>>
       /\ td.LastOrderedValue = <<OrderedValue(web.orderBy, lastRow)>>
       /\ td.FirstID = first.ID
       /\ td.LastID = lastRow.ID

\* ======================================================================
\* The two engines side by side
\* ======================================================================
\* The same sequence of AddNewTorrent calls with new infohashes, valid
\* names and a nonzero total size stores the same rows on both engines
\* (Populated).  One read call is then made on both, and the two results
\* are kept in last.both, sqlite3 first.
Engines == <<"sqlite3", "postgres">>

OnBoth(op, ih, args, results) ==
  /\ last' = [Call(op, ih) EXCEPT !.args = args, !.both = results]
  /\ QueryFrame
  /\ UNCHANGED <<walk, web, userVersion, statistics, gen>>

BothDoesTorrentExist(ih) ==
  LET Result(e) == [exists |-> DoesTorrentExistResult(ih), err |-> FALSE]
  IN OnBoth("DoesTorrentExist", ih, <<>>, <<Result(Engines[1]), Result(Engines[2])>>)

BothGetTorrent(ih) ==
  LET Result(e) == [tm |-> GetTorrentResultOn(e, ih), err |-> FALSE]
  IN OnBoth("GetTorrent", ih, <<>>, <<Result(Engines[1]), Result(Engines[2])>>)

BothGetFiles(ih) ==
  LET Result(e) == GetFilesResultOn(e, ih)
  IN OnBoth("GetFiles", ih, <<>>, <<Result(Engines[1]), Result(Engines[2])>>)

BothGetNumberOfTorrents ==
  LET Result(e) == GetNumberOfTorrentsResultOn(e)
  IN OnBoth("GetNumberOfTorrents", 0, <<>>, <<Result(Engines[1]), Result(Engines[2])>>)

BothQueryTorrents(a) ==
  LET Result(e) == QueryTorrentsResultOn(e, a)
  IN OnBoth("QueryTorrents", 0, a, <<Result(Engines[1]), Result(Engines[2])>>)

BothGetStatistics(n, from) ==
  LET Result(e) == GetStatisticsResultOn(e, n, from)
  IN OnBoth("GetStatistics", 0, <<n, from>>, <<Result(Engines[1]), Result(Engines[2])>>)

NextBoth ==
  /\ last = NoCall
  /\ \/ \E ih \in InfoHashes : BothDoesTorrentExist(ih)
     \/ \E ih \in InfoHashes : BothGetTorrent(ih)
     \/ \E ih \in InfoHashes : BothGetFiles(ih)
     \/ BothGetNumberOfTorrents
     \/ \E a \in QueryArgs : BothQueryTorrents(a)
     \/ \E n \in 0..MaxN : \E from \in FromStrings : BothGetStatistics(n, from)

SpecBoth == Populated /\ [][NextBoth]_vars

\* C22: sqlite3 and postgres are observationally equivalent: a call
\* returns the same value and the same error or no-error outcome on both.
C22_EnginesReturnTheSame ==
  last.both # <<>> => last.both[1] = last.both[2]


\* ------------------------------------------------- opening old databases
\* A sqlite3 file at any schema version, with the rows a crawler left in
\* it, not yet opened.
InitMigrate ==
  /\ engine = "sqlite3"
  /\ userVersion \in 0..5
  /\ \E k \in 0..MaxRows : \E h \in Histories(k) :
       /\ torrents = TorrentsOf(h, k)
       /\ files = FilesOfHistory(h, k)
       /\ tseq = k
       /\ fseq = Cardinality(FilesOfHistory(h, k))
       /\ nAdds = k
       /\ returnedNil = 1..k
  /\ conns = [c \in Conns |-> [open |-> FALSE, fk |-> FALSE, lastRowid |-> 0]]
  /\ tx = [p \in Procs |-> NoTx]
  /\ now = 2
  /\ last = NoCall
  /\ walk = NoWalk
  /\ web = NoWeb
  /\ statistics = {}
  /\ gen = NoGen

MigrateFrame ==
  UNCHANGED <<engine, torrents, files, tseq, fseq, tx, now, returnedNil, nAdds,
              walk, web, statistics, gen>>

\* makeSqlite3Database: sql.Open, then setupDatabase in one transaction.
\* ok: whether every statement and the commit succeed; when one fails the
\* deferred Rollback undoes the transaction, user_version included, and no
\* Database is returned.  last.n is the version found in the file.
makeSqlite3Database(ok) ==
  /\ ~conns[1].open
  /\ LET r == setupDatabaseResult(engine, userVersion) IN
       /\ userVersion' = IF ok /\ ~r.err THEN r.version ELSE userVersion
       /\ conns' = [conns EXCEPT ![1].open = ok /\ ~r.err, ![1].fk = ok /\ ~r.err]
       /\ last' = [NoCall EXCEPT !.op = "MakeDatabase", !.err = ~ok \/ r.err,
                                 !.n = userVersion]
  /\ MigrateFrame

Close ==
  /\ conns[1].open
  /\ conns' = [conns EXCEPT ![1].open = FALSE, ![1].fk = FALSE]
  /\ UNCHANGED <<userVersion, last>>
  /\ MigrateFrame

NextMigrate ==
  \/ \E ok \in BOOLEAN : makeSqlite3Database(ok)
  \/ Close

SpecMigrate == InitMigrate /\ [][NextMigrate]_vars

\* C23: after MakeDatabase returns successfully on a sqlite3 database at any
\* schema version 0..5, a fresh file included, the stored user_version is
\* the latest version, 5 (the version never decreases and an open at the
\* latest version changes nothing).
C23_OpenReachesLatestVersion ==
  (last.op = "MakeDatabase" /\ ~last.err) => userVersion = 5


\* ------------------------------------------------- statements that fail
\* Above, a statement fails only for what the database holds.  Here the
\* database may also refuse a statement for reasons of its own (I/O error,
\* lost connection, full disk).

\* Begin fails, or the INSERT into torrents does (which is reached only
\* with a nonzero total size): AddNewTorrent returns the error, the
\* deferred Rollback ends the transaction.
AddNewTorrentInsertFails(p, ih, name, fs, step) ==
  /\ Idle(p)
  /\ nAdds < MaxAdds
  /\ step \in {"begin", "insert"}
  /\ step = "insert" => SumSizes(fs) # 0
  /\ nAdds' = nAdds + 1
  /\ \E c \in Acquirable : conns' = Acquired(c)
  /\ last' = AddResult(ih, name, fs, TRUE, Conflicts(ih))
  /\ UNCHANGED <<engine, torrents, files, tseq, fseq, tx, now, returnedNil>>
  /\ UNCHANGED <<walk, web, userVersion, statistics, gen>>

\* Mutation: the rows of a transaction that is rolled back stay.
Rollback_Keeps(rows) == rows

\* The deferred tx.Rollback(): of the rows the transaction inserted, none
\* is stored.
Rollback(rows) == {}

\* The insert of a file row fails, or every insert succeeds and Commit
\* fails: AddNewTorrent returns the error and the transaction's rows are
\* dropped.  What is not part of the transaction stays: the rowid the
\* sqlite3 connection inserted last, the values drawn from the sequence of
\* postgres' files.id.
AddNewTorrentCommitFails(p, step) ==
  /\ tx[p].active
  /\ step \in {"files", "commit"}
  /\ LET t == tx[p]
         rows == NewFileRows(t.files, t.lastInsertId, MaxId(files) + 1, FALSE)
     IN  /\ (engine = "sqlite3" /\ step = "commit")
              => ForeignKeyOk(t.conn, t.lastInsertId, t.pending)
         /\ conns' = IF engine = "sqlite3" /\ step = "commit"
                     THEN [conns EXCEPT ![t.conn].lastRowid = MaxId(rows)]
                     ELSE conns
         /\ fseq' = IF engine = "postgres" /\ step = "commit"
                    THEN fseq + Len(t.files) ELSE fseq
         /\ torrents' = torrents \cup Rollback(t.pending)
         /\ files' = files \cup Rollback(IF step = "commit" THEN rows ELSE {})
         /\ last' = AddResult(t.ih, t.name, t.files, TRUE, t.pending = {})
  /\ tx' = [tx EXCEPT ![p] = NoTx]
  /\ UNCHANGED <<engine, tseq, now, nAdds, returnedNil>>
  /\ UNCHANGED <<walk, web, userVersion, statistics, gen>>

\* The lookup of DoesTorrentExist fails.  "query": Query returns an error,
\* which is returned.  "next": rows.Next() returns false because the
\* iteration failed; the function then returns false and err, the error of
\* Query, which is nil at that point, not rows.Err().  "close": a row was
\* read and rows.Close() returns an error, which is returned.
DoesTorrentExistFails(p, ih, step) ==
  /\ Idle(p)
  /\ step \in {"query", "next", "close"}
  /\ step = "close" => DoesTorrentExistResult(ih)
  /\ \E c \in Acquirable :
       /\ last' = [Call("DoesTorrentExist", ih) EXCEPT
                     !.exists = FALSE, !.err = (step # "next")]
       /\ ReadFrame(c)

NextFaults ==
  \/ \E p \in Procs, ih \in InfoHashes, name \in Names, fs \in FileLists :
       AddNewTorrentInsert(p, ih, name, fs)
  \/ \E p \in Procs : AddNewTorrentCommit(p)
  \/ \E p \in Procs, ih \in InfoHashes, name \in Names, fs \in FileLists :
       \E step \in {"begin", "insert"} : AddNewTorrentInsertFails(p, ih, name, fs, step)
  \/ \E p \in Procs, step \in {"files", "commit"} : AddNewTorrentCommitFails(p, step)
  \/ \E p \in Procs, ih \in InfoHashes : DoesTorrentExist(p, ih)
  \/ \E p \in Procs, ih \in InfoHashes, step \in {"query", "next", "close"} :
       DoesTorrentExistFails(p, ih, step)

SpecFaults == Init /\ [][NextFaults]_vars

\* C24: AddNewTorrent is atomic.  When a call returns an error, whatever
\* the step that failed, the torrents and the files table are as they were;
\* when it returns no error for a new infohash with a nonzero total size,
\* one torrent row and one file row per file, all pointing to that row,
\* are stored in the same step.
C24_AddNewTorrentIsAtomic ==
  [][AddReturns =>
       /\ last'.err => torrents' = torrents /\ files' = files
       /\ (~last'.err /\ ~last'.existed /\ SumSizes(last'.files) # 0)
            => \E t \in torrents' \ torrents :
                 /\ torrents' = torrents \cup {t}
                 /\ t.info_hash = last'.ih
                 /\ files \subseteq files'
                 /\ Cardinality(files' \ files) = Len(last'.files)
                 /\ \A f \in files' \ files : f.torrent_id = t.id]_vars

\* A call failed at Commit after its torrent row and its file rows had been
\* inserted, and an earlier call had stored a torrent.
C24_Witness ==
  /\ last.op = "AddNewTorrent"
  /\ last.err
  /\ ~last.existed
  /\ SumSizes(last.files) # 0
  /\ RowsOf(last.ih) = {}
  /\ torrents # {}

\* C25: DoesTorrentExist never swallows a failed lookup: it returns
\* (false, nil) only when the infohash is not stored.
C25_FalseNilMeansAbsent ==
  (last.op = "DoesTorrentExist" /\ ~last.exists /\ ~last.err)
    => RowsOf(last.ih) = {}


\* C26: whenever GetStatistics returns a nil error it returns a non-nil
\* Statistics, on both engines (statisticsHandler dereferences the result
\* after checking only the error).
C26_NilErrorMeansStatistics ==
  (last.op = "GetStatistics" /\ ~last.err) => last.stats # <<>>


\* -------------------------------------------------- GenerateStatisticData
\* GenerateStatisticData(from) begins a transaction, counts with up to
\* three SELECTs sent through db.conn - outside the transaction, each on a
\* pooled connection and each seeing what is committed when it runs - and
\* then inserts one row into statistics through the transaction.  It is
\* modelled statement by statement, so that AddNewTorrent calls of the
\* crawler can run in between.  Times count hours.
MaxGenerate == 1

\* A database opened once, or more than once, with nothing stored yet.
InitGenerate ==
  /\ engine \in {"sqlite3", "postgres"}
  /\ userVersion \in
       {setupDatabaseResult(engine, 0).version,
        setupDatabaseResult(engine, setupDatabaseResult(engine, 0).version).version}
  /\ torrents = {}
  /\ files = {}
  /\ conns = [c \in Conns |->
               [open |-> (c = 1), fk |-> (c = 1 /\ engine = "sqlite3"), lastRowid |-> 0]]
  /\ tseq = 0
  /\ fseq = 0
  /\ tx = [p \in Procs |-> NoTx]
  /\ now = 1
  /\ last = NoCall
  /\ returnedNil = {}
  /\ statistics = {}
  /\ gen = NoGen
  /\ nAdds = 0
  /\ walk = NoWalk
  /\ web = NoWeb

GenerateFrame ==
  UNCHANGED <<engine, torrents, files, tseq, fseq, tx, now, returnedNil, nAdds,
              walk, web, userVersion>>

GenerateResult(from, err) ==
  [Call("GenerateStatisticData", 0) EXCEPT !.args = <<from>>, !.err = err]

\* time.ParseDuration("1h") and db.conn.Begin().
GenerateStatisticDataBegin(from) ==
  /\ gen.pc = "idle"
  /\ Cardinality(statistics) < MaxGenerate
  /\ \E c \in Acquirable :
       /\ conns' = Acquired(c)
       /\ gen' = [NoGen EXCEPT !.pc = "count", !.conn = c, !.from = from]
  /\ UNCHANGED <<last, statistics>>
  /\ GenerateFrame

\* SELECT COUNT(id) FROM torrents WHERE discovered_on > ? AND
\* discovered_on <= ?.  postgres does not know the placeholder ?: the
\* statement is rejected, the call returns the error.
GenerateStatisticDataCount ==
  /\ gen.pc = "count"
  /\ IF engine = "postgres"
     THEN /\ gen' = NoGen
          /\ last' = GenerateResult(gen.from, TRUE)
          /\ UNCHANGED conns
     ELSE /\ \E c \in Acquirable : conns' = Acquired(c)
          /\ LET n == Cardinality(BucketTorrents(gen.from, gen.from + 1)) IN
               gen' = [gen EXCEPT !.nTorrents = n,
                                  !.pc = IF n # 0 THEN "files" ELSE "insert"]
          /\ UNCHANGED last
  /\ UNCHANGED statistics
  /\ GenerateFrame

\* if nTorrents != 0: SELECT COUNT(f.id) FROM files f INNER JOIN torrents t.
GenerateStatisticDataFiles ==
  /\ gen.pc = "files"
  /\ \E c \in Acquirable : conns' = Acquired(c)
  /\ gen' = [gen EXCEPT !.nFiles = BucketNFiles(gen.from, gen.from + 1), !.pc = "insert"]
  /\ UNCHANGED <<last, statistics>>
  /\ GenerateFrame

\* if nTorrents != 0: SELECT SUM(total_size); then INSERT INTO statistics
\* and Commit.  The INSERT fails while the table does not exist (it is
\* created by the step from version 4 to 5) and while another transaction
\* holds the write lock; the deferred Rollback then ends the transaction.
GenerateStatisticDataInsert ==
  /\ gen.pc = "insert"
  /\ LET until == gen.from + 1
         totalSize == IF gen.nTorrents # 0
                      THEN SumTotalSize(BucketTorrents(gen.from, until)) ELSE 0
         row == [id |-> MaxId(statistics) + 1, from_date |-> gen.from, to_date |-> until,
                 torrents |-> gen.nTorrents, files |-> gen.nFiles, size |-> totalSize]
         failed == userVersion < 5 \/ \E q \in Procs : tx[q].active
     IN  /\ statistics' = IF failed THEN statistics ELSE statistics \cup {row}
         /\ conns' = IF failed THEN conns
                     ELSE [conns EXCEPT ![gen.conn].lastRowid = row.id]
         /\ last' = GenerateResult(gen.from, failed)
  /\ gen' = NoGen
  /\ GenerateFrame

NextGenerate ==
  \/ Tick
  \/ \E p \in Procs, ih \in InfoHashes, name \in Names, fs \in FileLists :
       AddNewTorrentInsert(p, ih, name, fs)
  \/ \E p \in Procs : AddNewTorrentCommit(p)
  \/ \E from \in 0..MaxClock : GenerateStatisticDataBegin(from)
  \/ GenerateStatisticDataCount
  \/ GenerateStatisticDataFiles
  \/ GenerateStatisticDataInsert

SpecGenerate == InitGenerate /\ [][NextGenerate]_vars

\* C27: when GenerateStatisticData(from) returns nil, exactly one row has
\* been added to statistics; it covers (from, from + 1h] and holds the
\* number of torrents discovered in that interval, the number of their
\* files and the sum of their total sizes - of the torrents S that had been
\* discovered when the call counted them.  When it returns an error no row
\* has been added.  On both engines.
C27_OneRowPerInterval ==
  [][(gen.pc # "idle" /\ gen'.pc = "idle") =>
       IF last'.err THEN statistics' = statistics
       ELSE \E r \in statistics' \ statistics :
              /\ statistics' = statistics \cup {r}
              /\ r.from_date = gen.from
              /\ r.to_date = gen.from + 1
              /\ \E S \in SUBSET BucketTorrents(gen.from, gen.from + 1) :
                   /\ r.torrents = Cardinality(S)
                   /\ r.files = Cardinality({f \in files : \E t \in S : f.torrent_id = t.id})
                   /\ r.size = SumTotalSize(S)]_vars


\* C28: on both engines QueryTorrents with an empty query and orderBy ==
\* ByRelevance returns the error "torrents cannot be ordered by relevance
\* when the query is empty" and no torrents, and leaves the database as it
\* was; with a non-empty query or another orderBy it never returns that
\* error.
C28_RelevanceNeedsAQuery ==
  /\ [](last.op = "QueryTorrents" =>
          IF last.args.query = <<>> /\ last.args.orderBy = "ByRelevance"
          THEN last.err /\ last.why = "relevance" /\ last.rows = <<>> /\ ~last.panic
          ELSE last.why # "relevance")
  /\ [][last'.op = "QueryTorrents"
          => UNCHANGED <<torrents, files, tseq, fseq, userVersion, statistics>>]_vars

\* postgres was asked to order a populated database by relevance without
\* a query.
C28_Witness ==
  /\ last.op = "QueryTorrents"
  /\ engine = "postgres"
  /\ last.args.query = <<>>
  /\ last.args.orderBy = "ByRelevance"
  /\ last.err
  /\ torrents # {}

====
